---- MODULE Spec2Model ----
(***************************************************************************)
(* The Dashboard component of frontend/src/App.js: the polling aggregator  *)
(* (fetchData), the tab selection, the rug-check workflow                  *)
(* (performRugCheck) and the mount/unmount lifecycle with its 30 s timer.  *)
(***************************************************************************)
EXTENDS Integers, Sequences, FiniteSets, TLC

VARIABLES
    now,              \* wall-clock time in ms since the component was constructed
    mounted,          \* "init" (rendered, effect not yet run), "mounted", "unmounted"
    interval,         \* the setInterval handle: [active, due]
    snapshot,         \* the eight data fields held by useState
    loading,          \* useState(true)
    activeTab,        \* useState("overview")
    rugCheckAddress,  \* useState("")
    rugCheckResult,   \* useState(null)
    checkingRug,      \* useState(false)
    cycles,           \* every fetchData call made so far, with its eight requests
    rugPosts,         \* the POST /rugcheck requests that have not settled yet
    resumed,          \* the fetchData call whose await returned in the last step
    faults,           \* responses so far that were rejected or off the documented shape
    toasts,           \* the notifications raised by the last step
    copied,           \* WhaleCard: useState(false)
    resets,           \* WhaleCard: the due times of the setTimeout callbacks pending
    clicks,           \* WhaleCard: clicks on the copy button so far
    lastOp            \* the last step, when it was a step of the user or of the rug
                      \* check: a tab selected, a token row's Check clicked, a call
                      \* refused, a click not delivered, a response (with its body)

vars == <<now, mounted, interval, snapshot, loading, activeTab, rugCheckAddress,
          rugCheckResult, checkingRug, cycles, rugPosts, resumed, faults,
          toasts, copied, resets, clicks, lastOp>>

\* The state of the WhaleCard of the landing page.
card == <<copied, resets, clicks>>

(***************************************************************************)
(* Bounds of the model.                                                    *)
(***************************************************************************)
MaxTicks == 2      \* the clock stops after this many refresh intervals
MaxManual == 1     \* clicks on the refresh button
MaxFaults == 2     \* responses that are rejected or not of the documented shape
MaxClicks == 3     \* clicks on the copy button of a whale card
MaxCardTicks == 6  \* the clock of the whale card stops after this many half delays
MaxPosts == 2      \* rug-check requests outstanding at once, when called directly

(***************************************************************************)
(* Program constants.                                                      *)
(***************************************************************************)
REFRESH_MS == 30000

ClockStep == REFRESH_MS \div 2

(***************************************************************************)
(* JavaScript values, as far as the component distinguishes them.  v = 0   *)
(* is the empty value of its type; v = c > 0 is the populated value the    *)
(* server sent in answer to refresh cycle c.                               *)
(***************************************************************************)
Undefined == [t |-> "undefined", v |-> 0]
Null == [t |-> "null", v |-> 0]
EmptyList == [t |-> "list", v |-> 0]
EmptyObject == [t |-> "object", v |-> 0]
List(c) == [t |-> "list", v |-> c]
Object(c) == [t |-> "object", v |-> c]
Number(n) == [t |-> "number", v |-> n]

\* An object whose payload key is present and holds the empty list: the literal
\* { tokens: [] } / { activities: [] } of the .catch fallbacks.
ObjectWithEmptyList == [t |-> "object", v |-> -1]

Falsy(x) == x.t \in {"undefined", "null"} \/ (x.t = "number" /\ x.v = 0)

\* JavaScript's  x || d
OrElse(x, d) == IF Falsy(x) THEN d ELSE x

(***************************************************************************)
(* The eight feeds, in the order of the Promise.all array.                 *)
(***************************************************************************)
FeedOrder == <<"stats", "users", "trades", "payments", "sol-price",
               "trending-tokens", "whale-activities", "trading-stats">>

Feeds == {FeedOrder[i] : i \in 1..Len(FeedOrder)}

\* The three requests that carry a .catch fallback.
OptionalFeeds == {"trending-tokens", "whale-activities", "trading-stats"}

RequiredFeeds == Feeds \ OptionalFeeds

FeedIndex(f) == CHOOSE i \in 1..Len(FeedOrder) : FeedOrder[i] = f

\* The state field each response is written to.
FieldOf(f) ==
    CASE f = "stats" -> "stats"
      [] f = "users" -> "users"
      [] f = "trades" -> "trades"
      [] f = "payments" -> "payments"
      [] f = "sol-price" -> "solPrice"
      [] f = "trending-tokens" -> "trendingTokens"
      [] f = "whale-activities" -> "whaleActivities"
      [] f = "trading-stats" -> "tradingStats"

Fields == {FieldOf(f) : f \in Feeds}

\* The value a .catch handler substitutes for a rejected optional request.
Fallback(f) == IF f = "trading-stats" THEN EmptyObject ELSE ObjectWithEmptyList

\* A request: pending, fulfilled with a response body, or rejected.
Pending == [st |-> "pending", data |-> Undefined]
Rejected == [st |-> "rejected", data |-> Undefined]
Fulfilled(d) == [st |-> "fulfilled", data |-> d]

\* The bodies the server can answer a request with: the documented object
\* (populated), an object without the expected key, or JSON null.
Documented == [t |-> "object", v |-> 1]

Bodies == {Documented, EmptyObject, Null}

Outcomes == {Rejected} \cup {Fulfilled(d) : d \in Bodies}

\* Is outcome o of a request anything but the documented response?
IsFault(o) == o.st = "rejected" \/ (o.st = "fulfilled" /\ o.data # Documented)

AllPending == [f \in Feeds |-> Pending]

NoCycle == [c |-> 0, resp |-> AllPending, calls |-> <<>>]

\* The tabs of the dashboard.
Tabs == {"overview", "trending", "rugcheck", "whales", "trades", "users", "payments"}

\* Token addresses: what the user may type and what trending tokens carry.
Addresses == {"A", "B"}

\* rugCheckResult: null, or the body of a rug-check response (the verdict for
\* the address the request was sent for).
\* risk_score is held in hundredths (82 for 0.82).  warnings and details may be
\* missing from a body; a details key may be missing from details.
ScoreUnit == 100

NoWarnings == [has |-> FALSE, list |-> <<>>]
Warnings(list) == [has |-> TRUE, list |-> list]

DetailKeys == {"liquidity_usd", "holder_count"}

NoDetails == [has |-> FALSE, liquidity_usd |-> Undefined, holder_count |-> Undefined]
Details(liq, holders) == [has |-> TRUE, liquidity_usd |-> liq, holder_count |-> holders]

NoResult ==
    [present |-> FALSE, address |-> "", is_safe |-> FALSE, risk_score |-> 0,
     warnings |-> NoWarnings, details |-> NoDetails]

RugBody(a, safe, score, warnings, details) ==
    [present |-> TRUE, address |-> a, is_safe |-> safe, risk_score |-> score,
     warnings |-> warnings, details |-> details]

\* The two verdicts the server gives in the dashboard specifications.
RugResult(a, safe) ==
    IF safe THEN RugBody(a, TRUE, 10, Warnings(<<>>), NoDetails)
    ELSE RugBody(a, FALSE, 82, Warnings(<<"low liquidity", "mint authority enabled">>),
                 NoDetails)

\* The verdicts of the documented shape for address a, as far as the result
\* panel tells them apart.
Scores == {0, 50, 51, 100}

WarningLists ==
    {NoWarnings, Warnings(<<>>),
     Warnings(<<"low liquidity", "mint authority enabled">>),
     Warnings(<<"mint authority enabled", "low liquidity">>)}

DetailMaps ==
    {NoDetails} \cup {Details(l, h) : l \in {Undefined, Number(0), Number(5)},
                                      h \in {Undefined, Number(7)}}

RugBodies(a) ==
    {RugBody(a, safe, score, w, d) :
        safe \in BOOLEAN, score \in Scores, w \in WarningLists, d \in DetailMaps}

\* A step of the user interface or of the rug check: its name, the response body
\* it received, the tab or address it was given.
OpOn(name, arg) == [op |-> name, body |-> NoResult, arg |-> arg]

Op(name) == OpOn(name, "")

(***************************************************************************)
(* State after construction: the useState initial values, nothing requested. *)
(***************************************************************************)
InitSnapshot ==
    [stats |-> Null, users |-> EmptyList, trades |-> EmptyList,
     payments |-> EmptyList, solPrice |-> Number(0), trendingTokens |-> EmptyList,
     whaleActivities |-> EmptyList, tradingStats |-> Null]

Init ==
    /\ now = 0
    /\ mounted = "init"
    /\ interval = [active |-> FALSE, due |-> 0]
    /\ snapshot = InitSnapshot
    /\ loading = TRUE
    /\ activeTab = "overview"
    /\ rugCheckAddress = ""
    /\ rugCheckResult = NoResult
    /\ checkingRug = FALSE
    /\ cycles = <<>>
    /\ rugPosts = <<>>
    /\ resumed = NoCycle
    /\ faults = 0
    /\ toasts = <<>>
    /\ copied = FALSE
    /\ resets = <<>>
    /\ clicks = 0
    /\ lastOp = Op("other")

\* React applies a state update only while the component is mounted.
Live == mounted = "mounted"

(***************************************************************************)
(* fetchData                                                               *)
(***************************************************************************)
\* What Promise.all sees of request f: a rejected optional request has been
\* turned into its fallback by .catch.
Input(resp, f) ==
    IF f \in OptionalFeeds /\ resp[f].st = "rejected"
    THEN Fulfilled(Fallback(f))
    ELSE resp[f]

\* Promise.all over the bare requests, the optional ones without their .catch.
PromiseAll_NoFallback(resp) ==
    IF \E f \in Feeds : resp[f].st = "rejected" THEN "rejected"
    ELSE IF \A f \in Feeds : resp[f].st = "fulfilled" THEN "fulfilled"
    ELSE "pending"

\* Promise.all over the five required requests only.
PromiseAll_RequiredOnly(resp) ==
    IF \E f \in RequiredFeeds : resp[f].st = "rejected" THEN "rejected"
    ELSE IF \A f \in RequiredFeeds : resp[f].st = "fulfilled" THEN "fulfilled"
    ELSE "pending"

\* Promise.all: rejected as soon as one input is, fulfilled when all are.
PromiseAll(resp) ==
    IF \E f \in Feeds : Input(resp, f).st = "rejected" THEN "rejected"
    ELSE IF \A f \in Feeds : Input(resp, f).st = "fulfilled" THEN "fulfilled"
    ELSE "pending"

\* res.data.<key> for the key of feed f (users, trades, payments, price_usd,
\* tokens, activities), on a body of cycle c that is an object.
Key(c, f, d) ==
    IF d.v = 0 THEN Undefined
    ELSE IF d.v < 0 THEN EmptyList
    ELSE IF f = "sol-price" THEN Number(c)
    ELSE List(c)

\* res.data as a whole.
Data(c, d) == IF d = Documented THEN Object(c) ELSE d

\* Reading a key of null throws a TypeError; stats and trading-stats bodies are
\* stored without being read.
Throws(f, d) == f \notin {"stats", "trading-stats"} /\ d.t = "null"

\* The argument of the setter of feed f.
SetterArg(c, f, d) ==
    IF f \in {"stats", "trading-stats"} THEN Data(c, d)
    ELSE IF f = "sol-price" THEN OrElse(Key(c, f, d), Number(0))
    ELSE OrElse(Key(c, f, d), EmptyList)

\* The first of the eight setter statements that throws, 9 if none does.
FirstThrow(resp) ==
    LET bad == {i \in 1..Len(FeedOrder) :
                    Throws(FeedOrder[i], Input(resp, FeedOrder[i]).data)}
    IN IF bad = {} THEN Len(FeedOrder) + 1
       ELSE CHOOSE i \in bad : \A j \in bad : i <= j

\* The try block keeping the last good value of an optional field whose
\* request was rejected.
Written_KeepsLastGood(c, resp, old) ==
    [fld \in Fields |->
        LET f == CHOOSE g \in Feeds : FieldOf(g) = fld
        IN IF FeedIndex(f) < FirstThrow(resp) /\ ~(f \in OptionalFeeds /\ resp[f].st = "rejected")
           THEN SetterArg(c, f, Input(resp, f).data)
           ELSE old[fld]]

\* The state fields after the try block ran on the eight responses: the setters
\* before the first throw have been called.
Written(c, resp, old) ==
    [fld \in Fields |->
        LET f == CHOOSE g \in Feeds : FieldOf(g) = fld
        IN IF FeedIndex(f) < FirstThrow(resp)
           THEN SetterArg(c, f, Input(resp, f).data)
           ELSE old[fld]]

\* How a fetchData call with these responses ends, or "running".
Outcome(resp) ==
    CASE PromiseAll(resp) = "pending" -> "running"
      [] PromiseAll(resp) = "rejected" -> "failed"
      [] PromiseAll(resp) = "fulfilled" /\ FirstThrow(resp) <= Len(FeedOrder) -> "threw"
      [] OTHER -> "written"

FetchFailedToast == "Failed to fetch data"

\* The state setter each response is passed to.
SetterOf(f) ==
    CASE f = "stats" -> "setStats"
      [] f = "users" -> "setUsers"
      [] f = "trades" -> "setTrades"
      [] f = "payments" -> "setPayments"
      [] f = "sol-price" -> "setSolPrice"
      [] f = "trending-tokens" -> "setTrendingTokens"
      [] f = "whale-activities" -> "setWhaleActivities"
      [] f = "trading-stats" -> "setTradingStats"

\* The setters of the try block that are reached, in the order called.
TryCalls(resp) ==
    IF PromiseAll(resp) = "fulfilled"
    THEN [i \in 1..(FirstThrow(resp) - 1) |-> SetterOf(FeedOrder[i])]
    ELSE <<>>

\* Calls with setLoading(false) as the last statement of the try block.
Calls_LoadingInTry(resp) ==
    IF Outcome(resp) = "written" THEN Append(TryCalls(resp), "setLoading")
    ELSE TryCalls(resp)

\* The state setters a fetchData call runs after its await, in order: those of
\* the try block, then setLoading(false) of the finally block.
Calls(resp) == Append(TryCalls(resp), "setLoading")

Called(resp, setter) == \E i \in 1..Len(Calls(resp)) : Calls(resp)[i] = setter

\* Resume with the responses merged into the state whether or not Promise.all
\* rejected.
Resume_MergesOnFailure(c, resp) ==
    /\ snapshot' = IF Live THEN Written(c, resp, snapshot) ELSE snapshot
    /\ toasts' = IF Outcome(resp) = "written" THEN <<>> ELSE <<FetchFailedToast>>
    /\ loading' = IF Live /\ Called(resp, "setLoading") THEN FALSE ELSE loading

\* The code after the await raising the notification only when no request of
\* the call is outstanding any more.
Resume_SilentWhileOutstanding(c, resp) ==
    /\ snapshot' = IF Live /\ PromiseAll(resp) = "fulfilled"
                   THEN Written(c, resp, snapshot) ELSE snapshot
    /\ toasts' = IF Outcome(resp) = "written" \/ \E f \in Feeds : resp[f] = Pending
                 THEN <<>> ELSE <<FetchFailedToast>>
    /\ loading' = IF Live /\ Called(resp, "setLoading") THEN FALSE ELSE loading

\* The code after the await with setLoading(false) at the end of the try block
\* only.
Resume_LoadingOnSuccess(c, resp) ==
    /\ snapshot' = IF Live /\ PromiseAll(resp) = "fulfilled"
                   THEN Written(c, resp, snapshot) ELSE snapshot
    /\ toasts' = IF Outcome(resp) = "written" THEN <<>> ELSE <<FetchFailedToast>>
    /\ loading' = IF Live /\ Outcome(resp) = "written" THEN FALSE ELSE loading

\* The code after the await, for call c and its responses resp.
Resume(c, resp) ==
    /\ snapshot' = IF Live /\ PromiseAll(resp) = "fulfilled"
                   THEN Written(c, resp, snapshot) ELSE snapshot
    /\ toasts' = IF Outcome(resp) = "written" THEN <<>> ELSE <<FetchFailedToast>>
    /\ loading' = IF Live /\ Called(resp, "setLoading") THEN FALSE ELSE loading

Running == {c \in DOMAIN cycles : cycles[c].state = "running"}

\* fetchData sending the five required requests only.
fetchData_SkipsOptional(src) ==
    cycles' = Append(cycles,
                     [src |-> src, state |-> "running",
                      resp |-> [f \in Feeds |-> IF f \in OptionalFeeds
                                                THEN Fulfilled(Fallback(f))
                                                ELSE Pending]])

\* fetchData returning at once while an earlier call is outstanding.
fetchData_SingleFlight(src) ==
    cycles' = IF Running = {}
              THEN Append(cycles, [src |-> src, state |-> "running", resp |-> AllPending])
              ELSE cycles

\* fetchData up to its await: the eight requests are sent.  Nothing stops a call
\* from starting while earlier ones are outstanding.
fetchData(src) ==
    cycles' = Append(cycles, [src |-> src, state |-> "running", resp |-> AllPending])

FaultsIn(resp) == Cardinality({f \in Feeds : IsFault(resp[f])})

\* Decide with the call made again when it failed.
Decide_RetriesOnFailure(c, resp) ==
    /\ cycles' = LET done == [cycles EXCEPT ![c].resp = AllPending, ![c].state = "done"]
                 IN IF Outcome(resp) = "written" THEN done
                    ELSE Append(done, [src |-> cycles[c].src, state |-> "running",
                                       resp |-> AllPending])
    /\ resumed' = [c |-> c, resp |-> resp, calls |-> Calls(resp)]
    /\ Resume(c, resp)

\* The await of call c returns on the responses resp.  After that the responses
\* are out of scope: a response that arrives later for this call changes
\* nothing, and is not a step.
Decide(c, resp) ==
    /\ cycles' = [cycles EXCEPT ![c].resp = AllPending, ![c].state = "done"]
    /\ resumed' = [c |-> c, resp |-> resp, calls |-> Calls(resp)]
    /\ Resume(c, resp)

\* Request f of the running call c settles with outcome o.
Settle(c, f, o) ==
    /\ c \in Running
    /\ cycles[c].resp[f] = Pending
    /\ o \in Outcomes
    /\ IsFault(o) => faults < MaxFaults
    /\ faults' = IF IsFault(o) THEN faults + 1 ELSE faults
    /\ LET resp == [cycles[c].resp EXCEPT ![f] = o]
       IN IF PromiseAll(resp) = "pending"
          THEN /\ cycles' = [cycles EXCEPT ![c].resp = resp]
               /\ resumed' = NoCycle
               /\ toasts' = <<>>
               /\ UNCHANGED <<snapshot, loading>>
          ELSE Decide(c, resp)
    /\ lastOp' = Op("other")
    /\ UNCHANGED card
    /\ UNCHANGED <<now, mounted, interval, activeTab, rugCheckAddress,
                   rugCheckResult, checkingRug, rugPosts>>

\* The first request of resp that has not settled, in the order sent.
NextFeed(resp) ==
    LET open == {i \in 1..Len(FeedOrder) : resp[FeedOrder[i]] = Pending}
    IN FeedOrder[CHOOSE i \in open : \A j \in open : i <= j]

\* The responses on which the await of a call can return when its requests
\* settle in the order sent, starting from resp, with at most b more faults.
RECURSIVE ArrivalsFrom(_, _)
ArrivalsFrom(resp, b) ==
    IF PromiseAll(resp) # "pending" THEN {resp}
    ELSE UNION {ArrivalsFrom([resp EXCEPT ![NextFeed(resp)] = o],
                             IF IsFault(o) THEN b - 1 ELSE b) :
                    o \in {x \in Outcomes : IsFault(x) => b > 0}}

Arrivals == [b \in 0..MaxFaults |-> ArrivalsFrom(AllPending, b)]

\* Those of them in which the server answers every request with the documented
\* body or with an error.
Answers ==
    [b \in 0..MaxFaults |->
        {r \in Arrivals[b] : \A f \in Feeds : r[f].st = "fulfilled" => r[f].data = Documented}]

\* Those in which the server is up, answering all eight as documented, or down,
\* failing the first request.
UpOrDown ==
    [b \in 0..MaxFaults |->
        {r \in Answers[b] : r["stats"] = Rejected \/ \A f \in Feeds : r[f] = Fulfilled(Documented)}]

\* The responses of the running call c arrive one after the other with nothing
\* in between, up to the one on which its await returns.
Respond(c, resp) ==
    /\ c \in Running
    /\ cycles[c].resp = AllPending
    /\ resp \in Arrivals[MaxFaults - faults]
    /\ faults' = faults + FaultsIn(resp)
    /\ Decide(c, resp)
    /\ lastOp' = Op("other")
    /\ UNCHANGED card
    /\ UNCHANGED <<now, mounted, interval, activeTab, rugCheckAddress,
                   rugCheckResult, checkingRug, rugPosts>>

(***************************************************************************)
(* Lifecycle and timer (the useEffect)                                     *)
(***************************************************************************)
\* The effect clearing the loading flag itself, right after starting the cycle.
Mount_ClearsLoading ==
    /\ mounted = "init"
    /\ mounted' = "mounted"
    /\ fetchData("mount")
    /\ interval' = [active |-> TRUE, due |-> now + REFRESH_MS]
    /\ loading' = FALSE
    /\ resumed' = NoCycle
    /\ toasts' = <<>>
    /\ lastOp' = Op("other")
    /\ UNCHANGED card
    /\ UNCHANGED <<now, snapshot, activeTab, rugCheckAddress,
                   rugCheckResult, checkingRug, rugPosts, faults>>

\* The effect starting the timer only, the first cycle left to the first tick.
Mount_TimerOnly ==
    /\ mounted = "init"
    /\ mounted' = "mounted"
    /\ interval' = [active |-> TRUE, due |-> now + REFRESH_MS]
    /\ resumed' = NoCycle
    /\ toasts' = <<>>
    /\ lastOp' = Op("other")
    /\ UNCHANGED card
    /\ UNCHANGED <<now, snapshot, loading, activeTab, rugCheckAddress,
                   rugCheckResult, checkingRug, cycles, rugPosts, faults>>

\* The effect, run once after the first render: fetchData(), setInterval.
Mount ==
    /\ mounted = "init"
    /\ mounted' = "mounted"
    /\ fetchData("mount")
    /\ interval' = [active |-> TRUE, due |-> now + REFRESH_MS]
    /\ resumed' = NoCycle
    /\ toasts' = <<>>
    /\ lastOp' = Op("other")
    /\ UNCHANGED card
    /\ UNCHANGED <<now, snapshot, loading, activeTab, rugCheckAddress,
                   rugCheckResult, checkingRug, rugPosts, faults>>

\* The interval fires.
Tick ==
    /\ interval.active
    /\ now = interval.due
    /\ fetchData("timer")
    /\ interval' = [interval EXCEPT !.due = now + REFRESH_MS]
    /\ resumed' = NoCycle
    /\ toasts' = <<>>
    /\ lastOp' = Op("other")
    /\ UNCHANGED card
    /\ UNCHANGED <<now, mounted, snapshot, loading, activeTab, rugCheckAddress,
                   rugCheckResult, checkingRug, rugPosts, faults>>

\* Unmount with the effect returning no cleanup.
Unmount_KeepsInterval ==
    /\ mounted = "mounted"
    /\ mounted' = "unmounted"
    /\ resumed' = NoCycle
    /\ toasts' = <<>>
    /\ lastOp' = Op("other")
    /\ UNCHANGED card
    /\ UNCHANGED <<now, interval, snapshot, loading, activeTab, rugCheckAddress,
                   rugCheckResult, checkingRug, cycles, rugPosts, faults>>

\* The cleanup of the effect: clearInterval.
Unmount ==
    /\ mounted = "mounted"
    /\ mounted' = "unmounted"
    /\ interval' = [interval EXCEPT !.active = FALSE]
    /\ resumed' = NoCycle
    /\ toasts' = <<>>
    /\ lastOp' = Op("other")
    /\ UNCHANGED card
    /\ UNCHANGED <<now, snapshot, loading, activeTab, rugCheckAddress,
                   rugCheckResult, checkingRug, cycles, rugPosts, faults>>

\* Time passes; a due interval fires before time moves on.
AdvanceTime ==
    /\ mounted # "init"
    /\ now + ClockStep <= MaxTicks * REFRESH_MS
    /\ interval.active => now + ClockStep <= interval.due
    /\ now' = now + ClockStep
    /\ resumed' = NoCycle
    /\ toasts' = <<>>
    /\ lastOp' = Op("other")
    /\ UNCHANGED card
    /\ UNCHANGED <<mounted, interval, snapshot, loading, activeTab, rugCheckAddress,
                   rugCheckResult, checkingRug, cycles, rugPosts, faults>>

\* The dashboard rendered from the mount on, without the loading screen.
Rendered_WhileLoading == Live

\* The dashboard, with its buttons, is rendered only once loading is false.
Rendered == Live /\ ~loading

ManualCount == Cardinality({c \in DOMAIN cycles : cycles[c].src = "manual"})

\* The refresh button bringing the loading screen back for the new cycle.
ManualRefresh_ShowsLoading ==
    /\ Rendered
    /\ ManualCount < MaxManual
    /\ fetchData("manual")
    /\ loading' = TRUE
    /\ resumed' = NoCycle
    /\ toasts' = <<>>
    /\ lastOp' = Op("refresh")
    /\ UNCHANGED card
    /\ UNCHANGED <<now, mounted, interval, snapshot, activeTab,
                   rugCheckAddress, rugCheckResult, checkingRug, rugPosts, faults>>

\* The refresh button also restarting the interval from the time of the click.
ManualRefresh_RestartsTimer ==
    /\ Rendered
    /\ ManualCount < MaxManual
    /\ fetchData("manual")
    /\ interval' = [active |-> TRUE, due |-> now + REFRESH_MS]
    /\ resumed' = NoCycle
    /\ toasts' = <<>>
    /\ lastOp' = Op("refresh")
    /\ UNCHANGED card
    /\ UNCHANGED <<now, mounted, snapshot, loading, activeTab,
                   rugCheckAddress, rugCheckResult, checkingRug, rugPosts, faults>>

\* The refresh button: onClick={fetchData}.
ManualRefresh ==
    /\ Rendered
    /\ ManualCount < MaxManual
    /\ fetchData("manual")
    /\ resumed' = NoCycle
    /\ toasts' = <<>>
    /\ lastOp' = Op("refresh")
    /\ UNCHANGED card
    /\ UNCHANGED <<now, mounted, interval, snapshot, loading, activeTab,
                   rugCheckAddress, rugCheckResult, checkingRug, rugPosts, faults>>

\* The first refresh cycle, its responses arriving one by one in any order.
NextFeeds ==
    \/ Mount
    \/ Unmount
    \/ \E c \in DOMAIN cycles : \E f \in Feeds, o \in Outcomes : Settle(c, f, o)

SpecFeeds == Init /\ [][NextFeeds]_vars

\* The aggregator alone: refresh cycles answered with any of the bodies.
NextAggregator ==
    \/ Mount
    \/ ManualRefresh
    \/ Unmount
    \/ \E c \in Running : \E resp \in Arrivals[MaxFaults - faults] : Respond(c, resp)

SpecAggregator == Init /\ [][NextAggregator]_vars

(***************************************************************************)
(* Tabs                                                                    *)
(***************************************************************************)
\* A tab button that also refreshes the data.
SelectTab_Refetches(t) ==
    /\ Rendered
    /\ t \in Tabs
    /\ activeTab' = t
    /\ fetchData("manual")
    /\ resumed' = NoCycle
    /\ toasts' = <<>>
    /\ lastOp' = OpOn("selectTab", t)
    /\ UNCHANGED card
    /\ UNCHANGED <<now, mounted, interval, snapshot, loading, rugCheckAddress,
                   rugCheckResult, checkingRug, rugPosts, faults>>

\* A tab button that is ignored while a rug check is outstanding.
SelectTab_HeldWhileChecking(t) ==
    /\ Rendered
    /\ t \in Tabs
    /\ activeTab' = IF checkingRug THEN activeTab ELSE t
    /\ resumed' = NoCycle
    /\ toasts' = <<>>
    /\ lastOp' = OpOn("selectTab", t)
    /\ UNCHANGED card
    /\ UNCHANGED <<now, mounted, interval, snapshot, loading, rugCheckAddress,
                   rugCheckResult, checkingRug, cycles, rugPosts, faults>>

\* A tab button: onClick={() => setActiveTab(tab)}.
SelectTab(t) ==
    /\ Rendered
    /\ t \in Tabs
    /\ activeTab' = t
    /\ resumed' = NoCycle
    /\ toasts' = <<>>
    /\ lastOp' = OpOn("selectTab", t)
    /\ UNCHANGED card
    /\ UNCHANGED <<now, mounted, interval, snapshot, loading, rugCheckAddress,
                   rugCheckResult, checkingRug, cycles, rugPosts, faults>>

\* The addresses of the rows of the trending table.
TokensOf(list) == IF list.v > 0 THEN Addresses ELSE {}

\* The "Check" button of a trending row also starting the check.
TokenCheck_RunsCheck(a) ==
    /\ Rendered
    /\ activeTab = "trending"
    /\ a \in TokensOf(snapshot.trendingTokens)
    /\ rugCheckAddress' = a
    /\ activeTab' = "rugcheck"
    /\ checkingRug' = TRUE
    /\ rugPosts' = Append(rugPosts, a)
    /\ resumed' = NoCycle
    /\ toasts' = <<>>
    /\ lastOp' = OpOn("tokenCheck", a)
    /\ UNCHANGED card
    /\ UNCHANGED <<now, mounted, interval, snapshot, loading, rugCheckResult,
                   cycles, faults>>

\* The "Check" button of a trending row.
TokenCheck(a) ==
    /\ Rendered
    /\ activeTab = "trending"
    /\ a \in TokensOf(snapshot.trendingTokens)
    /\ rugCheckAddress' = a
    /\ activeTab' = "rugcheck"
    /\ resumed' = NoCycle
    /\ toasts' = <<>>
    /\ lastOp' = OpOn("tokenCheck", a)
    /\ UNCHANGED card
    /\ UNCHANGED <<now, mounted, interval, snapshot, loading, rugCheckResult,
                   checkingRug, cycles, rugPosts, faults>>

(***************************************************************************)
(* Rug check                                                               *)
(***************************************************************************)
\* The address input also dropping the check that is in flight.
EditAddress_CancelsCheck(a) ==
    /\ Rendered
    /\ activeTab = "rugcheck"
    /\ a \in Addresses \cup {""}
    /\ a # rugCheckAddress
    /\ rugCheckAddress' = a
    /\ rugPosts' = <<>>
    /\ checkingRug' = FALSE
    /\ resumed' = NoCycle
    /\ toasts' = <<>>
    /\ lastOp' = Op("other")
    /\ UNCHANGED card
    /\ UNCHANGED <<now, mounted, interval, snapshot, loading, activeTab,
                   rugCheckResult, cycles, faults>>

\* The address input also clearing the verdict of the address before.
EditAddress_ClearsResult(a) ==
    /\ Rendered
    /\ activeTab = "rugcheck"
    /\ a \in Addresses \cup {""}
    /\ a # rugCheckAddress
    /\ rugCheckAddress' = a
    /\ rugCheckResult' = NoResult
    /\ resumed' = NoCycle
    /\ toasts' = <<>>
    /\ lastOp' = Op("other")
    /\ UNCHANGED card
    /\ UNCHANGED <<now, mounted, interval, snapshot, loading, activeTab,
                   checkingRug, cycles, rugPosts, faults>>

\* The address input: onChange={(e) => setRugCheckAddress(e.target.value)}.
EditAddress(a) ==
    /\ Rendered
    /\ activeTab = "rugcheck"
    /\ a \in Addresses \cup {""}
    /\ a # rugCheckAddress
    /\ rugCheckAddress' = a
    /\ resumed' = NoCycle
    /\ toasts' = <<>>
    /\ lastOp' = Op("other")
    /\ UNCHANGED card
    /\ UNCHANGED <<now, mounted, interval, snapshot, loading, activeTab,
                   rugCheckResult, checkingRug, cycles, rugPosts, faults>>

\* performRugCheck without its first line.
performRugCheck_NoGuard ==
    /\ checkingRug' = TRUE
    /\ rugPosts' = Append(rugPosts, rugCheckAddress)
    /\ lastOp' = Op("other")

\* performRugCheck up to its await.
performRugCheck ==
    IF rugCheckAddress = ""
    THEN /\ lastOp' = Op("rugRefused")
         /\ UNCHANGED <<checkingRug, rugPosts>>
    ELSE /\ checkingRug' = TRUE
         /\ rugPosts' = Append(rugPosts, rugCheckAddress)
         /\ lastOp' = Op("other")

\* The button disabled on an empty address only.
RugButtonDisabled_AddressOnly == rugCheckAddress = ""

\* disabled={checkingRug || !rugCheckAddress}
RugButtonDisabled == checkingRug \/ rugCheckAddress = ""

\* A click on the check button; a disabled button delivers no click.
ClickRugCheck ==
    /\ Rendered
    /\ activeTab = "rugcheck"
    /\ IF RugButtonDisabled
       THEN /\ lastOp' = Op("clickDisabled")
            /\ UNCHANGED <<checkingRug, rugPosts>>
       ELSE performRugCheck
    /\ resumed' = NoCycle
    /\ toasts' = <<>>
    /\ UNCHANGED card
    /\ UNCHANGED <<now, mounted, interval, snapshot, loading, activeTab,
                   rugCheckAddress, rugCheckResult, cycles, faults>>

\* performRugCheck called as a function, whatever the button shows.
CallRugCheck ==
    /\ Live
    /\ Len(rugPosts) < MaxPosts
    /\ performRugCheck
    /\ resumed' = NoCycle
    /\ toasts' = <<>>
    /\ UNCHANGED card
    /\ UNCHANGED <<now, mounted, interval, snapshot, loading, activeTab,
                   rugCheckAddress, rugCheckResult, cycles, faults>>

RugCompleteToast == "Rug check complete!"
RugFailedToast == "Rug check failed"

\* The rest of the sequence q without its i-th element.
Without(q, i) == [j \in 1..(Len(q) - 1) |-> IF j < i THEN q[j] ELSE q[j + 1]]

\* RugSettle with the result reset in the catch block.
RugSettle_ClearsOnFailure(i, ok, safe) ==
    /\ i \in 1..Len(rugPosts)
    /\ rugPosts' = Without(rugPosts, i)
    /\ IF ok
       THEN /\ rugCheckResult' = IF Live THEN RugResult(rugPosts[i], safe)
                                 ELSE rugCheckResult
            /\ toasts' = <<RugCompleteToast>>
            /\ lastOp' = [op |-> "rugResolved", body |-> RugResult(rugPosts[i], safe),
                           arg |-> ""]
       ELSE /\ rugCheckResult' = IF Live THEN NoResult ELSE rugCheckResult
            /\ toasts' = <<RugFailedToast>>
            /\ lastOp' = Op("rugRejected")
    /\ checkingRug' = IF Live THEN FALSE ELSE checkingRug
    /\ resumed' = NoCycle
    /\ UNCHANGED card
    /\ UNCHANGED <<now, mounted, interval, snapshot, loading, activeTab,
                   rugCheckAddress, cycles, faults>>

\* RugSettle with setCheckingRug(false) at the end of the try block.
RugSettle_NoFinally(i, ok, safe) ==
    /\ i \in 1..Len(rugPosts)
    /\ rugPosts' = Without(rugPosts, i)
    /\ IF ok
       THEN /\ rugCheckResult' = IF Live THEN RugResult(rugPosts[i], safe)
                                 ELSE rugCheckResult
            /\ toasts' = <<RugCompleteToast>>
            /\ lastOp' = [op |-> "rugResolved", body |-> RugResult(rugPosts[i], safe),
                           arg |-> ""]
       ELSE /\ UNCHANGED rugCheckResult
            /\ toasts' = <<RugFailedToast>>
            /\ lastOp' = Op("rugRejected")
    /\ checkingRug' = IF Live /\ ok THEN FALSE ELSE checkingRug
    /\ resumed' = NoCycle
    /\ UNCHANGED card
    /\ UNCHANGED <<now, mounted, interval, snapshot, loading, activeTab,
                   rugCheckAddress, cycles, faults>>

\* RugSettle storing a result only when none is held yet.
RugSettle_KeepsFirst(i, ok, safe) ==
    /\ i \in 1..Len(rugPosts)
    /\ rugPosts' = Without(rugPosts, i)
    /\ IF ok
       THEN /\ rugCheckResult' = IF Live /\ ~rugCheckResult.present
                                 THEN RugResult(rugPosts[i], safe)
                                 ELSE rugCheckResult
            /\ toasts' = <<RugCompleteToast>>
            /\ lastOp' = [op |-> "rugResolved", body |-> RugResult(rugPosts[i], safe),
                           arg |-> ""]
       ELSE /\ UNCHANGED rugCheckResult
            /\ toasts' = <<RugFailedToast>>
            /\ lastOp' = Op("rugRejected")
    /\ checkingRug' = IF Live THEN FALSE ELSE checkingRug
    /\ resumed' = NoCycle
    /\ UNCHANGED card
    /\ UNCHANGED <<now, mounted, interval, snapshot, loading, activeTab,
                   rugCheckAddress, cycles, faults>>

\* RugSettle bringing the rugcheck tab to the front when the result arrives.
RugSettle_ShowsResultTab(i, ok, safe) ==
    /\ i \in 1..Len(rugPosts)
    /\ rugPosts' = Without(rugPosts, i)
    /\ IF ok
       THEN /\ rugCheckResult' = IF Live THEN RugResult(rugPosts[i], safe)
                                 ELSE rugCheckResult
            /\ toasts' = <<RugCompleteToast>>
            /\ lastOp' = [op |-> "rugResolved", body |-> RugResult(rugPosts[i], safe),
                           arg |-> ""]
       ELSE /\ UNCHANGED rugCheckResult
            /\ toasts' = <<RugFailedToast>>
            /\ lastOp' = Op("rugRejected")
    /\ checkingRug' = IF Live THEN FALSE ELSE checkingRug
    /\ activeTab' = IF Live /\ ok THEN "rugcheck" ELSE activeTab
    /\ resumed' = NoCycle
    /\ UNCHANGED card
    /\ UNCHANGED <<now, mounted, interval, snapshot, loading,
                   rugCheckAddress, cycles, faults>>

\* performRugCheck after its await: the i-th outstanding request settles, with
\* the response body when it resolves.
RugSettleWith(i, ok, body) ==
    /\ i \in 1..Len(rugPosts)
    /\ rugPosts' = Without(rugPosts, i)
    /\ IF ok
       THEN /\ rugCheckResult' = IF Live THEN body
                                 ELSE rugCheckResult
            /\ toasts' = <<RugCompleteToast>>
            /\ lastOp' = [op |-> "rugResolved", body |-> body,
                           arg |-> ""]
       ELSE /\ UNCHANGED rugCheckResult
            /\ toasts' = <<RugFailedToast>>
            /\ lastOp' = Op("rugRejected")
    /\ checkingRug' = IF Live THEN FALSE ELSE checkingRug
    /\ resumed' = NoCycle
    /\ UNCHANGED card
    /\ UNCHANGED <<now, mounted, interval, snapshot, loading, activeTab,
                   rugCheckAddress, cycles, faults>>

\* The same with one of the two verdicts of the dashboard specifications.
RugSettle(i, ok, safe) == RugSettleWith(i, ok, RugResult(rugPosts[i], safe))

(***************************************************************************)
(* The dashboard as its user and the network drive it within one refresh   *)
(* interval; every request is answered with the documented body or fails.  *)
(***************************************************************************)
Next ==
    \/ Mount
    \/ ManualRefresh
    \/ Unmount
    \/ \E c \in Running : \E resp \in Answers[MaxFaults - faults] :
           Respond(c, resp)
    \/ \E t \in Tabs : SelectTab(t)
    \/ \E a \in Addresses : TokenCheck(a)
    \/ \E a \in Addresses \cup {""} : EditAddress(a)
    \/ ClickRugCheck
    \/ \E i \in 1..Len(rugPosts) : \E ok \in BOOLEAN, safe \in BOOLEAN : RugSettle(i, ok, safe)

Spec == Init /\ [][Next]_vars

(***************************************************************************)
(* The aggregator under its timer: the clock, the interval, the refresh    *)
(* button, and a server that is up or down for each cycle.                 *)
(***************************************************************************)
NextTimer ==
    \/ Mount
    \/ Tick
    \/ AdvanceTime
    \/ ManualRefresh
    \/ Unmount
    \/ \E c \in Running : \E resp \in UpOrDown[MaxFaults - faults] :
           Respond(c, resp)

SpecTimer == Init /\ [][NextTimer]_vars

(***************************************************************************)
(* The rug-check result panel: a check of one address answered with every  *)
(* verdict of the documented shape.                                        *)
(***************************************************************************)
\* The header of the panel.
Header(r) == IF r.is_safe THEN "SAFE" ELSE "RISKY"

\* The width of the severity bar, in percent: risk_score * 100.
BarWidth(r) == (r.risk_score * 100) \div ScoreUnit

RiskThreshold == 50

\* The bar in the high-severity colour from one half on.
BarColour_FromHalf(r) == IF r.risk_score >= RiskThreshold THEN "high" ELSE "low"

\* The colour of the bar: risk_score > 0.5 ? red : green.
BarColour(r) == IF r.risk_score > RiskThreshold THEN "high" ELSE "low"

\* The warnings block: rendered when warnings?.length > 0, one item per
\* warning in the order of the array.
WarningsBlock(r) ==
    IF r.warnings.has /\ Len(r.warnings.list) > 0
    THEN [shown |-> TRUE, items |-> r.warnings.list]
    ELSE [shown |-> FALSE, items |-> <<>>]

\* The details block showing an entry only for a value that is truthy.
DetailsBlock_Truthy(r) ==
    IF r.details.has
    THEN [shown |-> TRUE,
          entries |-> [k \in {x \in DetailKeys : ~Falsy(r.details[x])} |-> r.details[k]]]
    ELSE [shown |-> FALSE, entries |-> <<>>]

\* The details block: rendered when details is there, with an entry for each
\* of the two keys that is !== undefined, showing the value as it is.
DetailsBlock(r) ==
    IF r.details.has
    THEN [shown |-> TRUE,
          entries |-> [k \in {x \in DetailKeys : r.details[x] # Undefined} |-> r.details[k]]]
    ELSE [shown |-> FALSE, entries |-> <<>>]

\* The panel is rendered on the rugcheck tab once there is a result.
PanelShown == Rendered /\ activeTab = "rugcheck" /\ rugCheckResult.present

NextVerdict ==
    \/ Mount
    \/ \E c \in Running : \E resp \in UpOrDown[MaxFaults - faults] :
           Respond(c, resp)
    \/ \E t \in {"rugcheck", "overview"} : SelectTab(t)
    \/ EditAddress("A")
    \/ ClickRugCheck
    \/ \E i \in 1..Len(rugPosts) : \E ok \in BOOLEAN :
           \E body \in RugBodies(rugPosts[i]) : RugSettleWith(i, ok, body)

SpecVerdict == Init /\ [][NextVerdict]_vars

(***************************************************************************)
(* Failure and recovery: the timer, the refresh button and the rug check   *)
(* of one address, against a server that is up or down.                    *)
(***************************************************************************)
NextRecovery ==
    \/ Mount
    \/ Tick
    \/ AdvanceTime
    \/ ManualRefresh
    \/ \E c \in Running : \E resp \in UpOrDown[MaxFaults - faults] :
           Respond(c, resp)
    \/ SelectTab("rugcheck")
    \/ EditAddress("A")
    \/ ClickRugCheck
    \/ \E i \in 1..Len(rugPosts) : \E ok \in BOOLEAN : RugSettle(i, ok, TRUE)

SpecRecovery == Init /\ [][NextRecovery]_vars

(***************************************************************************)
(* Completion: the mount, the refresh button and the rug check of one      *)
(* address, under a network in which every request that was sent settles:  *)
(* the responses of every running call arrive, and so does the answer to   *)
(* an outstanding rug check.  Nothing obliges the user.                    *)
(***************************************************************************)
NextSettling ==
    \/ Mount
    \/ ManualRefresh
    \/ Unmount
    \/ \E c \in Running : \E resp \in UpOrDown[MaxFaults - faults] :
           Respond(c, resp)
    \/ SelectTab("rugcheck")
    \/ EditAddress("A")
    \/ ClickRugCheck
    \/ \E i \in 1..Len(rugPosts) : \E ok \in BOOLEAN : RugSettle(i, ok, TRUE)

\* The calls of fetchData in this specification.
MaxCycles == 1 + MaxManual

RequestsSettle ==
    /\ \A c \in 1..MaxCycles :
          WF_vars(\E resp \in UpOrDown[MaxFaults - faults] : Respond(c, resp))
    /\ WF_vars(\E i \in 1..Len(rugPosts) : \E ok \in BOOLEAN : RugSettle(i, ok, TRUE))

SpecSettling == Init /\ [][NextSettling]_vars /\ RequestsSettle

(***************************************************************************)
(* Overlapping refresh cycles: the timer and the refresh button, with the  *)
(* server answering with any of the bodies.                                *)
(***************************************************************************)
NextRace ==
    \/ Mount
    \/ Tick
    \/ AdvanceTime
    \/ ManualRefresh
    \/ \E c \in Running : \E resp \in Arrivals[MaxFaults - faults] :
           Respond(c, resp)

SpecRace == Init /\ [][NextRace]_vars

(***************************************************************************)
(* The rug-check workflow with performRugCheck also called directly, as a  *)
(* test of the function calls it.                                          *)
(***************************************************************************)
NextDirect ==
    \/ Mount
    \/ \E c \in Running : \E resp \in Answers[MaxFaults - faults] : Respond(c, resp)
    \/ \E t \in Tabs : SelectTab(t)
    \/ \E a \in Addresses \cup {""} : EditAddress(a)
    \/ ClickRugCheck
    \/ CallRugCheck
    \/ \E i \in 1..Len(rugPosts) : \E ok \in BOOLEAN, safe \in BOOLEAN : RugSettle(i, ok, safe)

SpecDirect == Init /\ [][NextDirect]_vars

(***************************************************************************)
(* The WhaleCard of the landing page: the copy button and its timeouts.    *)
(* The dashboard is not on the page.                                       *)
(***************************************************************************)
COPIED_MS == 2000

CardStep == COPIED_MS \div 2

CopiedToast == "Address copied!"

\* The state of the Dashboard, which the card does not touch.
dashboard == <<mounted, interval, snapshot, loading, activeTab, rugCheckAddress,
               rugCheckResult, checkingRug, cycles, rugPosts, resumed, faults>>

\* copyAddress clearing the timeout of the click before.
copyAddress_RestartsReset ==
    /\ clicks < MaxClicks
    /\ now + COPIED_MS <= MaxCardTicks * CardStep
    /\ clicks' = clicks + 1
    /\ copied' = TRUE
    /\ toasts' = <<CopiedToast>>
    /\ resets' = <<now + COPIED_MS>>
    /\ lastOp' = Op("copy")
    /\ UNCHANGED <<now, dashboard>>

\* copyAddress: setCopied(true), the toast, setTimeout(..., 2000).  The id of
\* the timeout is not kept.
copyAddress ==
    /\ clicks < MaxClicks
    /\ now + COPIED_MS <= MaxCardTicks * CardStep
    /\ clicks' = clicks + 1
    /\ copied' = TRUE
    /\ toasts' = <<CopiedToast>>
    /\ resets' = Append(resets, now + COPIED_MS)
    /\ lastOp' = Op("copy")
    /\ UNCHANGED <<now, dashboard>>

\* The oldest pending timeout fires: () => setCopied(false).
ResetFires ==
    /\ resets # <<>>
    /\ resets[1] = now
    /\ copied' = FALSE
    /\ resets' = Tail(resets)
    /\ toasts' = <<>>
    /\ lastOp' = Op("copyReset")
    /\ UNCHANGED <<now, clicks, dashboard>>

\* Time passes on the landing page; a timeout that is due fires first.
CardTime ==
    /\ now + CardStep <= MaxCardTicks * CardStep
    /\ resets # <<>> => now + CardStep <= resets[1]
    /\ now' = now + CardStep
    /\ toasts' = <<>>
    /\ lastOp' = Op("other")
    /\ UNCHANGED <<card, dashboard>>

NextCard ==
    \/ copyAddress
    \/ ResetFires
    \/ CardTime

\* The clock runs and a timeout that is due fires.
SpecCard == Init /\ [][NextCard]_vars /\ WF_vars(CardTime) /\ WF_vars(ResetFires)

(***************************************************************************)
(* The claims.                                                             *)
(***************************************************************************)
\* The snapshot the specification describes for the responses resp of cycle c:
\* per feed the value the server sent, the default where the key is absent or
\* the optional request failed.
Reconciled(c, resp) ==
    [fld \in Fields |->
        LET f == CHOOSE g \in Feeds : FieldOf(g) = fld
            d == resp[f].data
        IN IF resp[f].st = "rejected"
           THEN (IF f = "trading-stats" THEN EmptyObject ELSE EmptyList)
           ELSE IF f \in {"stats", "trading-stats"}
                THEN (IF d = Documented THEN Object(c) ELSE d)
           ELSE IF f = "sol-price"
                THEN (IF d = Documented THEN Number(c) ELSE Number(0))
           ELSE (IF d = Documented THEN List(c) ELSE EmptyList)]

RequiredAllFulfilled(resp) == \A f \in RequiredFeeds : resp[f].st = "fulfilled"

RequiredRejected(resp) == \E f \in RequiredFeeds : resp[f].st = "rejected"

OptionalRejected(resp) == {f \in OptionalFeeds : resp[f].st = "rejected"}

\* The five counters of the overview.
StatKeys ==
    {"total_users", "active_wallets", "total_trades", "total_profit_usd",
     "whale_activities_today"}

\* stats?.<key>: undefined on null and on an object without the key, else the
\* counter the server sent.
StatOf(stats, k) ==
    IF stats.t = "object" /\ stats.v > 0 THEN Number(stats.v) ELSE Undefined

\* n.toFixed(2) behind a dollar sign, held as the cents it shows.
Usd(n) == [t |-> "usd", v |-> n.v * 100]

\* A stat card showing the counter as it is read.
StatCard_NoDefault(stats, k) ==
    IF k = "total_profit_usd" THEN Usd(StatOf(stats, k)) ELSE StatOf(stats, k)

\* The value of the stat card of counter k:  stats?.<key> || 0.
StatCard(stats, k) ==
    IF k = "total_profit_usd"
    THEN Usd(OrElse(StatOf(stats, k), Number(0)))
    ELSE OrElse(StatOf(stats, k), Number(0))

\* What a card shows for nothing: 0, and $0.00 for the profit.
Zero(k) == IF k = "total_profit_usd" THEN Usd(Number(0)) ELSE Number(0)

\* What the trending tab shows for a token list.
TrendingPanel(tokens) ==
    IF tokens.v > 0 THEN "table" ELSE "Loading trending tokens..."

\* C1: a refresh cycle in which a required request rejects writes none of the
\* eight snapshot fields (the snapshot after the cycle is the one before it)
\* and leaves loading false.
C1_RequiredRejectionKeepsSnapshot ==
    [][(resumed'.c # 0 /\ RequiredRejected(resumed'.resp))
          => (snapshot' = snapshot /\ (Live => ~loading'))]_vars

\* C1 witness: a refresh of a populated dashboard has just failed on a rejected
\* required request.
C1_Witness ==
    /\ resumed.c > 1
    /\ RequiredRejected(resumed.resp)
    /\ snapshot = Reconciled(1, [f \in Feeds |-> Fulfilled(Documented)])
    /\ Live
    /\ ~loading

\* C2: a cycle in which all five required requests succeed and exactly one
\* optional request rejects succeeds: the failed feed's field holds its empty
\* default, every other field the value the server returned, and the trending
\* tab shows its empty-state message when it is the trending feed that failed.
C2_OneOptionalRejected ==
    [][(/\ resumed'.c # 0
        /\ Live
        /\ RequiredAllFulfilled(resumed'.resp)
        /\ Cardinality(OptionalRejected(resumed'.resp)) = 1)
          => /\ snapshot' = Reconciled(resumed'.c, resumed'.resp)
             /\ toasts' = <<>>
             /\ ("trending-tokens" \in OptionalRejected(resumed'.resp)
                    => TrendingPanel(snapshot'.trendingTokens) = "Loading trending tokens...")]_vars

\* C3: at most one rug-check request is outstanding at any time, and
\* checkingRug is true exactly while one is; a second click while one is
\* outstanding sends nothing.
C3_SingleFlight ==
    /\ Len(rugPosts) <= 1
    /\ Live => (checkingRug <=> Len(rugPosts) = 1)

\* C3 witness: the check button was clicked again while a request was
\* outstanding, and one request is outstanding.
C3_Witness ==
    /\ lastOp.op = "clickDisabled"
    /\ checkingRug
    /\ Len(rugPosts) = 1
    /\ rugCheckAddress # ""

\* C4: calling the rug check while the address is empty sends no request, does
\* not set checkingRug, raises no notification and leaves rugCheckResult as it is.
C4_EmptyAddressRefused ==
    [][rugCheckAddress = ""
          => /\ Len(rugPosts') <= Len(rugPosts)
             /\ (lastOp'.op = "rugRefused"
                    => /\ UNCHANGED <<rugPosts, checkingRug, rugCheckResult>>
                       /\ toasts' = <<>>)]_vars

\* C4 witness: performRugCheck has just been called with the empty address.
C4_Witness ==
    /\ lastOp.op = "rugRefused"
    /\ rugCheckAddress = ""
    /\ rugPosts = <<>>
    /\ ~checkingRug

\* C5: the eight snapshot fields change only together, to the values of the
\* responses of one refresh cycle: a cycle writes all eight or none.
C5_SnapshotFromOneCycle ==
    [][snapshot' # snapshot
          => (resumed'.c # 0 /\ snapshot' = Reconciled(resumed'.c, resumed'.resp))]_vars

\* C6: after a cycle in which all five required requests succeed, stats, users,
\* trades, payments and solPrice hold the values the server sent, the default
\* standing in only for a key the response lacks.
C6_ServerValuesVerbatim ==
    [][(resumed'.c # 0 /\ Live /\ RequiredAllFulfilled(resumed'.resp))
          => \A f \in RequiredFeeds :
                snapshot'[FieldOf(f)] = Reconciled(resumed'.c, resumed'.resp)[FieldOf(f)]]_vars

TimerCycles == Cardinality({c \in DOMAIN cycles : cycles[c].src = "timer"})

\* C7: while mounted, one timer-driven cycle has started for every 30 000 ms
\* elapsed; after unmount the interval is cancelled and no timer-driven cycle
\* starts, whatever is still in flight.
C7_OneCyclePerInterval ==
    /\ [](Live => TimerCycles = (IF now = interval.due
                                 THEN (now \div REFRESH_MS) - 1
                                 ELSE now \div REFRESH_MS))
    /\ [][mounted = "unmounted"
             => (TimerCycles' = TimerCycles /\ ~interval'.active)]_vars

\* C7 witness: unmounted after the first tick with a cycle still in flight, and
\* the time of the second tick has come.
C7_Witness ==
    /\ mounted = "unmounted"
    /\ TimerCycles = 1
    /\ now = 2 * REFRESH_MS
    /\ Running # {}

\* C8: a rejected rug-check request leaves rugCheckResult as it was and raises
\* the rug-check failure notification and no other.
C8_FailedCheckKeepsResult ==
    [][lastOp'.op = "rugRejected"
          => /\ rugCheckResult' = rugCheckResult
             /\ toasts' = <<RugFailedToast>>
             /\ RugFailedToast # FetchFailedToast]_vars

\* C8 witness: a check has just failed while an earlier result is held.
C8_Witness ==
    /\ lastOp.op = "rugRejected"
    /\ rugCheckResult.present
    /\ Live

\* C9: checkingRug is set when the request is sent and cleared when it
\* settles, on success and on failure alike.
C9_InFlightBracketsRequest ==
    [][/\ Len(rugPosts') > Len(rugPosts) => (~checkingRug /\ checkingRug')
       /\ (Live /\ lastOp'.op \in {"rugResolved", "rugRejected"}) => ~checkingRug']_vars

\* C9 witness: a request has just been rejected and checkingRug is false again.
C9_Witness ==
    /\ lastOp.op = "rugRejected"
    /\ Live
    /\ ~checkingRug
    /\ rugPosts = <<>>

\* C10: when a rug-check request resolves, rugCheckResult becomes the body of
\* that response, replacing any earlier one, with one success notification;
\* a settled check raises one notification, success or failure, never both.
C10_ResultIsResponseBody ==
    [][/\ lastOp'.op = "rugResolved"
            => /\ toasts' = <<RugCompleteToast>>
               /\ Live => rugCheckResult' = lastOp'.body
               /\ \E i \in 1..Len(rugPosts) : lastOp'.body.address = rugPosts[i]
       /\ lastOp'.op = "rugRejected" => toasts' = <<RugFailedToast>>]_vars

\* C10 witness: a check of B has just resolved and its body is the result held.
C10_Witness ==
    /\ lastOp.op = "rugResolved"
    /\ Live
    /\ rugCheckResult = lastOp.body
    /\ rugCheckResult.address = "B"
    /\ toasts = <<RugCompleteToast>>

\* C11: selecting a tab sends no request, starts no refresh cycle and changes
\* no field of the snapshot; of the component's state it changes activeTab only.
C11_TabSwitchHasNoSideEffect ==
    [][lastOp'.op = "selectTab"
          => /\ UNCHANGED <<snapshot, cycles, rugPosts, loading, rugCheckAddress,
                            rugCheckResult, checkingRug, mounted, interval, faults>>
             /\ toasts' = <<>>
             /\ resumed' = NoCycle]_vars

\* C11 witness: a tab has just been selected on a populated dashboard while a
\* refresh cycle is outstanding.
C11_Witness ==
    /\ lastOp.op = "selectTab"
    /\ activeTab = "trades"
    /\ snapshot # InitSnapshot
    /\ Running # {}

\* C12: activeTab is overview initially and always one of the seven tabs;
\* selecting tab t sets activeTab to t, whatever the current tab, the data and
\* the requests in flight.
C12_ActiveTabIsTheSelectedTab ==
    /\ activeTab = "overview"
    /\ [](activeTab \in Tabs)
    /\ [][lastOp'.op = "selectTab"
             => (lastOp'.arg \in Tabs /\ activeTab' = lastOp'.arg)]_vars

\* C12 witness: the payments tab has just been selected from the rugcheck tab
\* while a rug check and a refresh cycle are outstanding.
C12_Witness ==
    /\ lastOp.op = "selectTab"
    /\ lastOp.arg = "payments"
    /\ activeTab = "payments"
    /\ checkingRug
    /\ Running # {}

\* C20: the Check button of a trending row sets the rug-check address to the
\* row's token address and activeTab to rugcheck in one step; it sends no
\* rug-check request and leaves checkingRug as it is.
C20_TokenCheckPrefillsOnly ==
    [][lastOp'.op = "tokenCheck"
          => /\ activeTab = "trending"
             /\ rugCheckAddress' = lastOp'.arg
             /\ activeTab' = "rugcheck"
             /\ UNCHANGED <<rugPosts, checkingRug, rugCheckResult, cycles, snapshot>>
             /\ toasts' = <<>>]_vars

\* C20 witness: the Check button of token B has just been clicked while a check
\* of A is outstanding.
C20_Witness ==
    /\ lastOp.op = "tokenCheck"
    /\ lastOp.arg = "B"
    /\ rugCheckAddress = "B"
    /\ activeTab = "rugcheck"
    /\ rugPosts = <<"A">>
    /\ checkingRug

C14_LoadingClearedOncePerCycle ==
    [][/\ resumed'.c # 0
            => LET k == resumed'.calls
               IN /\ cycles[resumed'.c].state = "running"
                  /\ cycles'[resumed'.c].state = "done"
                  /\ Len(k) >= 1
                  /\ k[Len(k)] = "setLoading"
                  /\ \A i \in 1..(Len(k) - 1) : k[i] # "setLoading"
                  /\ Live => ~loading'
                  /\ Outcome(resumed'.resp) = "written"
                        => /\ Len(k) = Len(FeedOrder) + 1
                           /\ \A i \in 1..Len(FeedOrder) : k[i] = SetterOf(FeedOrder[i])
       /\ loading' # loading => resumed'.c # 0]_vars

\* C14 witness: the first cycle has just failed on a rejected required request
\* and the loading flag, set until then, is cleared.
C14_Witness ==
    /\ resumed.c = 1
    /\ RequiredRejected(resumed.resp)
    /\ resumed.calls = <<"setLoading">>
    /\ Live
    /\ ~loading

\* C15: a refresh cycle or rug check that settles after the Dashboard has been
\* unmounted is a no-op: it changes no state and shows the user nothing.
C15_LateSettlementIsNoOp ==
    [][mounted = "unmounted"
          => /\ UNCHANGED <<snapshot, loading, activeTab, rugCheckAddress,
                            rugCheckResult, checkingRug>>
             /\ toasts' = <<>>]_vars

\* C16: when a manual refresh and a timer-driven cycle overlap, both complete,
\* and when the second of them completes successfully the snapshot is the one
\* that cycle produced, whichever of the two started first: here the one that
\* started first completes after the one that started second has.
C16_LastWriterWins ==
    [][(/\ resumed'.c # 0
        /\ Live
        /\ RequiredAllFulfilled(resumed'.resp)
        /\ \E d \in DOMAIN cycles :
              /\ {cycles[d].src, cycles[resumed'.c].src} = {"timer", "manual"}
              /\ resumed'.c < d
              /\ cycles[d].state = "done")
          => snapshot' = Reconciled(resumed'.c, resumed'.resp)]_vars

\* The requests of call c that are awaiting their response.
Outstanding(cs, c) == {f \in Feeds : cs[c].resp[f] = Pending}

\* C17: a refresh cycle sends exactly eight requests, one to each endpoint, all
\* at its start, before any of its responses is processed; no step in which a
\* response arrives or the cycle ends sends another, whatever the outcome.
C17_EightRequestsPerCycle ==
    [][/\ Len(cycles') > Len(cycles)
            => /\ Len(cycles') = Len(cycles) + 1
               /\ Outstanding(cycles', Len(cycles')) = Feeds
               /\ Cardinality(Feeds) = 8
               /\ resumed'.c = 0
       /\ \A c \in DOMAIN cycles :
               /\ c \in DOMAIN cycles'
               /\ cycles'[c].state = "running"
                     => /\ cycles[c].state = "running"
                        /\ Outstanding(cycles', c) \subseteq Outstanding(cycles, c)
       /\ resumed'.c # 0 => Len(cycles') = Len(cycles)]_vars

\* C17 witness: the cycle has just failed on a rejected required request, an
\* optional one rejected before it, and it is still the only cycle.
C17_Witness ==
    /\ resumed.c = 1
    /\ RequiredRejected(resumed.resp)
    /\ OptionalRejected(resumed.resp) # {}
    /\ Len(cycles) = 1
    /\ cycles[1].state = "done"

\* C18: a refresh cycle or rug check that ends, failed or not, sends no
\* request; a refresh cycle starts only at activation, on a timer tick or on a
\* click of the refresh button, and a rug-check request is sent only on a
\* click of the enabled check button.
C18_NoAutomaticRetry ==
    [][/\ resumed'.c # 0
            => (Len(cycles') = Len(cycles) /\ rugPosts' = rugPosts)
       /\ lastOp'.op \in {"rugResolved", "rugRejected"}
            => (cycles' = cycles /\ Len(rugPosts') = Len(rugPosts) - 1)
       /\ Len(cycles') > Len(cycles)
            => LET n == cycles'[Len(cycles')]
               IN \/ n.src = "mount" /\ mounted = "init"
                  \/ n.src = "timer" /\ interval.active /\ now = interval.due
                  \/ n.src = "manual" /\ Rendered
       /\ Len(rugPosts') > Len(rugPosts)
            => (Rendered /\ activeTab = "rugcheck" /\ ~RugButtonDisabled)]_vars

\* C18 witness: the first refresh cycle has failed, a rug check has just
\* failed, and no request is outstanding.
C18_Witness ==
    /\ lastOp.op = "rugRejected"
    /\ Len(cycles) = 1
    /\ cycles[1].state = "done"
    /\ snapshot = InitSnapshot
    /\ Running = {}
    /\ rugPosts = <<>>

\* C19: a refresh cycle in which a required request rejects raises the
\* feed-failure notification once, however many of its requests reject; a
\* cycle in which only optional requests reject raises no notification; no
\* step other than the end of a cycle raises the feed-failure notification.
C19_OneNotificationPerFailedCycle ==
    [][/\ (resumed'.c # 0 /\ RequiredRejected(resumed'.resp))
            => toasts' = <<FetchFailedToast>>
       /\ (resumed'.c # 0 /\ ~RequiredRejected(resumed'.resp)
                          /\ OptionalRejected(resumed'.resp) # {})
            => toasts' = <<>>
       /\ resumed'.c = 0
            => \A i \in 1..Len(toasts') : toasts'[i] # FetchFailedToast]_vars

\* C21: the rug check and the aggregator write disjoint state: no step of a rug
\* check (request sent, resolved, rejected) changes a snapshot field, loading
\* or activeTab, and no step of a refresh cycle (started, completed) changes
\* the address, checkingRug or rugCheckResult.
C21_WorkflowsWriteDisjointState ==
    [][/\ (\/ Len(rugPosts') > Len(rugPosts)
           \/ lastOp'.op \in {"rugResolved", "rugRejected", "rugRefused", "clickDisabled"})
            => UNCHANGED <<snapshot, loading, activeTab, cycles>>
       /\ (resumed'.c # 0 \/ Len(cycles') > Len(cycles))
            => UNCHANGED <<rugCheckAddress, checkingRug, rugCheckResult, rugPosts>>]_vars

\* C21 witness: a rug check has just resolved while another tab is shown and a
\* refresh cycle is outstanding over a populated snapshot.
C21_Witness ==
    /\ lastOp.op = "rugResolved"
    /\ rugCheckResult.present
    /\ activeTab = "users"
    /\ snapshot # InitSnapshot
    /\ Running # {}
    /\ Live

\* C22: the verdict shown is a function of rugCheckResult alone: the header is
\* SAFE exactly when is_safe is true and RISKY otherwise, whatever the score;
\* the bar is filled to risk_score x 100 percent, between 0 and 100; the bar
\* has the high-severity colour exactly when risk_score > 0.5, so 0.5 is low.
C22_VerdictFollowsResult ==
    PanelShown =>
        LET r == rugCheckResult
        IN /\ Header(r) = "SAFE" <=> r.is_safe
           /\ Header(r) = "RISKY" <=> ~r.is_safe
           /\ BarWidth(r) * ScoreUnit = r.risk_score * 100
           /\ BarWidth(r) \in 0..100
           /\ BarColour(r) = "high" <=> 2 * r.risk_score > ScoreUnit
           /\ BarColour(r) = "low" <=> 2 * r.risk_score <= ScoreUnit

\* C22 witness: a verdict that is risky with a score of exactly 0.5 is shown.
C22_Witness ==
    /\ PanelShown
    /\ ~rugCheckResult.is_safe
    /\ 2 * rugCheckResult.risk_score = ScoreUnit
    /\ Header(rugCheckResult) = "RISKY"
    /\ BarColour(rugCheckResult) = "low"
    /\ BarWidth(rugCheckResult) = 50

\* C23: the warnings are listed in the order of the response and the block is
\* left out when the list is empty or missing; a details entry is shown exactly
\* for a key the response has, with the value it has and no default.
C23_WarningsAndDetailsAsGiven ==
    PanelShown =>
        LET r == rugCheckResult
            w == WarningsBlock(r)
            d == DetailsBlock(r)
        IN /\ w.shown <=> (r.warnings.has /\ r.warnings.list # <<>>)
           /\ w.shown => w.items = r.warnings.list
           /\ \A k \in DetailKeys :
                 k \in DOMAIN d.entries <=> (r.details.has /\ r.details[k] # Undefined)
           /\ \A k \in DOMAIN d.entries : d.entries[k] = r.details[k]

\* C23 witness: a verdict is shown whose warnings come in the other order,
\* with a liquidity of 0 and no holder count.
C23_Witness ==
    /\ PanelShown
    /\ rugCheckResult.warnings.list = <<"mint authority enabled", "low liquidity">>
    /\ WarningsBlock(rugCheckResult).items[1] = "mint authority enabled"
    /\ rugCheckResult.details.has
    /\ rugCheckResult.details.liquidity_usd = Number(0)
    /\ rugCheckResult.details.holder_count = Undefined
    /\ DOMAIN DetailsBlock(rugCheckResult).entries = {"liquidity_usd"}

MountCycles == Cardinality({c \in DOMAIN cycles : cycles[c].src = "mount"})

\* C24: the step that mounts the dashboard starts exactly one refresh cycle and
\* the 30 000 ms timer together; that cycle is running before the first tick,
\* and no other cycle is ever started by mounting.
C24_MountStartsCycleAndTimer ==
    [][/\ (mounted = "init" /\ mounted' # "init")
            => /\ cycles' = <<[src |-> "mount", state |-> "running", resp |-> AllPending]>>
               /\ interval' = [active |-> TRUE, due |-> now' + REFRESH_MS]
       /\ mounted' # "init" => MountCycles' = 1
       /\ (mounted' # "init" /\ now' < REFRESH_MS)
            => cycles'[1].src = "mount" /\ TimerCycles' = 0]_vars

\* C24 witness: half an interval after mounting, the cycle of the mount is the
\* only one and is in flight, and the timer is due at 30 000 ms.
C24_Witness ==
    /\ mounted = "mounted"
    /\ now = ClockStep
    /\ Len(cycles) = 1
    /\ cycles[1].src = "mount"
    /\ Running = {1}
    /\ interval = [active |-> TRUE, due |-> REFRESH_MS]

\* C25, as stated: a refresh cycle completes only after all five of its
\* required requests have settled.
C25_CompletesAfterAllRequiredSettle ==
    [][resumed'.c # 0
         => \A f \in RequiredFeeds : resumed'.resp[f].st # "pending"]_vars

\* C25, amended: a refresh cycle completes only after all five of its required
\* requests have settled or one of them has been rejected; it writes the
\* snapshot only after all eight requests have settled, and it completes at
\* the first rejection of a required request, not waiting for the others.
C25_CompletesWhenSettledOrRejected ==
    [][/\ resumed'.c # 0
            => /\ \/ \A f \in RequiredFeeds : resumed'.resp[f].st # "pending"
                  \/ \E f \in RequiredFeeds : resumed'.resp[f].st = "rejected"
               /\ snapshot' # snapshot
                    => \A f \in Feeds : resumed'.resp[f].st # "pending"
               /\ Live => ~loading'
       /\ \A c \in DOMAIN cycles' :
             (\E f \in RequiredFeeds : cycles'[c].resp[f].st = "rejected")
                 => cycles'[c].state # "running"]_vars

\* C25 witness: the cycle has completed with the failure notification on the
\* rejection of one required request while another one is still outstanding.
C25_Witness ==
    /\ resumed.c = 1
    /\ \E f \in RequiredFeeds : resumed.resp[f].st = "rejected"
    /\ \E f \in RequiredFeeds : resumed.resp[f].st = "pending"
    /\ toasts = <<FetchFailedToast>>
    /\ ~loading
    /\ snapshot = InitSnapshot

\* C26: performRugCheck itself refuses while a check is in flight: invoked
\* with checkingRug true, it sends no request and changes no state, whatever
\* the button shows.
C26_InvocationRefusedWhileInFlight ==
    [][checkingRug
         => /\ Len(rugPosts') <= Len(rugPosts)
            /\ lastOp'.op \notin {"rugResolved", "rugRejected"}
                 => UNCHANGED <<checkingRug, rugCheckResult, rugPosts>>]_vars

\* C27: a timer tick or a manual refresh always starts a new refresh cycle,
\* also while earlier cycles are outstanding: the step adds one running cycle
\* and leaves every earlier cycle, the snapshot and loading as they were.
C27_RefreshNeverWaitsOrCancels ==
    [][/\ (\/ interval.active /\ interval'.due # interval.due
           \/ lastOp'.op = "refresh")
            => /\ Len(cycles') = Len(cycles) + 1
               /\ cycles'[Len(cycles')] =
                     [src |-> IF lastOp'.op = "refresh" THEN "manual" ELSE "timer",
                      state |-> "running", resp |-> AllPending]
       /\ Len(cycles') > Len(cycles)
            => /\ \A c \in DOMAIN cycles : cycles'[c] = cycles[c]
               /\ UNCHANGED <<snapshot, loading>>]_vars

\* C27 witness: three cycles are in flight at once, started by the timer, by
\* the refresh button and by the timer again.
C27_Witness ==
    /\ Cardinality(Running) = 3
    /\ \E c \in Running : cycles[c].src = "manual" /\ c < Len(cycles)
    /\ cycles[Len(cycles)].src = "timer"
    /\ Len(cycles) \in Running

\* The eight outcomes a call can end up with when resp is what has arrived.
Completions(resp) ==
    LET open == {f \in Feeds : resp[f] = Pending}
    IN {[f \in Feeds |-> IF f \in open THEN x[f] ELSE resp[f]] : x \in [open -> Outcomes]}

\* What call c leaves behind for the eight outcomes all, whatever their order:
\* the failure notification and the old snapshot if a required request is
\* rejected, else the fields written by the setters that are reached.
FinalOf(c, all, old) ==
    IF \E f \in RequiredFeeds : all[f].st = "rejected"
    THEN [snapshot |-> old, toasts |-> <<FetchFailedToast>>]
    ELSE [snapshot |-> Written(c, all, old),
          toasts |-> IF FirstThrow(all) <= Len(FeedOrder)
                     THEN <<FetchFailedToast>> ELSE <<>>]

\* C28: for fixed outcomes of the eight requests of a cycle, the snapshot, the
\* notification and loading after the cycle are the same for every order of
\* arrival: whatever has arrived when the cycle completes, the result is the
\* one fixed by the eight outcomes together.
C28_ArrivalOrderIrrelevant ==
    [][resumed'.c # 0
         => \A all \in Completions(resumed'.resp) :
               /\ toasts' = FinalOf(resumed'.c, all, snapshot).toasts
               /\ snapshot' = IF Live THEN FinalOf(resumed'.c, all, snapshot).snapshot
                              ELSE snapshot
               /\ loading' = (~Live /\ loading)]_vars

\* C28 witness: the cycle has completed on a rejection that arrived while other
\* requests were outstanding, after an optional request had been rejected and
\* a required one answered.
C28_Witness ==
    /\ resumed.c = 1
    /\ Live
    /\ \E f \in RequiredFeeds : resumed.resp[f].st = "rejected"
    /\ \E f \in RequiredFeeds : resumed.resp[f].st = "fulfilled"
    /\ \E f \in OptionalFeeds : resumed.resp[f].st = "rejected"
    /\ Cardinality({f \in Feeds : resumed.resp[f] = Pending}) >= 2
    /\ toasts = <<FetchFailedToast>>
    /\ ~loading

\* C29: while a rug check is in flight, editing the address, a token's Check
\* button and a tab switch leave the outstanding request, the in-flight flag
\* and the result alone; when the request resolves, the verdict for the address
\* it was sent with is stored, whatever the address is by then.
C29_InFlightCheckKeepsItsTarget ==
    [][/\ (/\ rugPosts # <<>>
           /\ \/ rugCheckAddress' # rugCheckAddress
              \/ lastOp'.op \in {"selectTab", "tokenCheck"})
            => UNCHANGED <<rugPosts, checkingRug, rugCheckResult>>
       /\ (lastOp'.op = "rugResolved" /\ Live)
            => /\ rugPosts # <<>>
               /\ rugCheckResult'.present
               /\ rugCheckResult'.address = rugPosts[1]
               /\ rugCheckResult' = lastOp'.body]_vars

\* C29 witness: a check sent for one address has resolved after the address
\* in the input became another one; the stored verdict is the one for the
\* address sent.
C29_Witness ==
    /\ lastOp.op = "rugResolved"
    /\ Live
    /\ rugCheckResult.present
    /\ rugCheckAddress \in Addresses
    /\ rugCheckResult.address \in Addresses \ {rugCheckAddress}
    /\ activeTab = "rugcheck"
    /\ snapshot.trendingTokens # EmptyList

\* What the dashboard shows when nothing has been loaded: 0 on the five cards
\* and empty lists.
ShowsDefaults(snap) ==
    /\ snap.stats = Null
    /\ \A k \in StatKeys : StatCard(snap.stats, k) = Zero(k)
    /\ \A fld \in {"users", "trades", "payments", "trendingTokens", "whaleActivities"} :
          snap[fld] = EmptyList

\* C30, as stated: when the very first refresh cycle (the one of the mount)
\* fails, loading becomes false with stats still absent, and the dashboard
\* shows 0 on the five cards and empty lists.
C30_FirstCycleFailureShowsDefaults ==
    [][(resumed'.c = 1 /\ RequiredRejected(resumed'.resp) /\ Live)
          => (~loading' /\ ShowsDefaults(snapshot'))]_vars

\* C30, amended: when the first refresh cycle to complete fails, loading
\* becomes false with stats still absent, and the dashboard shows 0 on the five
\* cards and empty lists.
C30_FirstCompletionFailureShowsDefaults ==
    [][(/\ resumed'.c # 0
        /\ RequiredRejected(resumed'.resp)
        /\ Live
        /\ \A c \in DOMAIN cycles : cycles[c].state = "running")
          => (~loading' /\ ShowsDefaults(snapshot'))]_vars

\* C30 witness: the cycle of the mount was the first to complete and failed;
\* the dashboard is rendered with its defaults.
C30_Witness ==
    /\ resumed.c = 1
    /\ RequiredRejected(resumed.resp)
    /\ \A c \in DOMAIN cycles : c # 1 => cycles[c].state = "running"
    /\ Rendered
    /\ ShowsDefaults(snapshot)
    /\ toasts = <<FetchFailedToast>>

\* C31: loading is true from the start until a refresh cycle clears it, and
\* once it is false no step sets it to true again, whatever cycles are started,
\* are slow or fail afterwards.
C31_LoadingIsMonotone ==
    [][/\ mounted = "init" => loading /\ loading'
       /\ ~loading => ~loading']_vars

\* C31 witness: with loading cleared, a later cycle has failed while another
\* one is still outstanding, and loading is still false.
C31_Witness ==
    /\ ~loading
    /\ Live
    /\ resumed.c >= 2
    /\ RequiredRejected(resumed.resp)
    /\ Running # {}
    /\ \E c \in DOMAIN cycles : cycles[c].src = "manual"

\* C32: while loading is true no operation of the user takes place: no manual
\* refresh, tab selection, token check, address edit or rug check, so tab,
\* address and rug-check state are the initial ones, and every cycle started so
\* far is the one of the mount or one of the timer.
C32_NothingUserDrivenWhileLoading ==
    [][/\ loading
            => /\ lastOp'.op = "other"
               /\ UNCHANGED <<activeTab, rugCheckAddress, rugCheckResult,
                              checkingRug, rugPosts>>
       /\ loading'
            => /\ \A c \in DOMAIN cycles' : cycles'[c].src \in {"mount", "timer"}
               /\ activeTab' = "overview" /\ rugCheckAddress' = ""
               /\ rugPosts' = <<>> /\ ~checkingRug' /\ ~rugCheckResult'.present]_vars

\* C32 witness: loading is still true one interval after the mount, with the
\* cycle of the mount and a timer-driven cycle in flight.
C32_Witness ==
    /\ loading
    /\ Live
    /\ now >= REFRESH_MS
    /\ Cardinality(Running) = 2
    /\ \E c \in Running : cycles[c].src = "timer"
    /\ activeTab = "overview"

\* The empty default of the field of an optional feed.
EmptyDefault(f) == IF f = "trading-stats" THEN EmptyObject ELSE EmptyList

\* C33: a refresh cycle that succeeds with an optional request rejected puts
\* the empty default into the field of that request also when the field held
\* a populated value: the last good value is not kept.
C33_OptionalFailureDropsLastGood ==
    [][(resumed'.c # 0 /\ Live /\ Outcome(resumed'.resp) = "written")
          => \A f \in OptionalRejected(resumed'.resp) :
                snapshot[FieldOf(f)].v > 0
                    => /\ snapshot'[FieldOf(f)] = EmptyDefault(f)
                       /\ snapshot'[FieldOf(f)] # snapshot[FieldOf(f)]]_vars

\* C33 witness: the second cycle has succeeded with the trending-tokens request
\* rejected; the token list is empty next to the users of that cycle.
C33_Witness ==
    /\ resumed.c = 2
    /\ Live
    /\ Outcome(resumed.resp) = "written"
    /\ OptionalRejected(resumed.resp) = {"trending-tokens"}
    /\ snapshot.trendingTokens = EmptyList
    /\ snapshot.whaleActivities = List(2)
    /\ snapshot.users = List(2)
    /\ toasts = <<>>

C35_ResultChangesOnlyOnSuccess ==
    [][/\ rugCheckResult' # rugCheckResult
            => /\ lastOp'.op = "rugResolved"
               /\ rugCheckResult' = lastOp'.body
       /\ (\/ rugCheckAddress' # rugCheckAddress
           \/ activeTab' # activeTab
           \/ lastOp'.op \in {"selectTab", "tokenCheck", "refresh", "rugRejected"}
           \/ resumed'.c # 0
           \/ Len(cycles') > Len(cycles))
            => UNCHANGED rugCheckResult]_vars

\* C35 witness: the verdict of one address is still there after the address
\* was changed and the check of the new address was rejected.
C35_Witness ==
    /\ lastOp.op = "rugRejected"
    /\ Rendered
    /\ activeTab = "rugcheck"
    /\ rugCheckResult.present
    /\ rugCheckAddress \in Addresses \ {rugCheckResult.address}
    /\ toasts = <<RugFailedToast>>

\* C36: a manual refresh and the completion of a cycle leave the timer as it
\* is, and the k-th timer-driven cycle starts k x 30 000 ms after the mount,
\* whatever was refreshed by hand and however long the cycles take.
C36_TimerIndependentOfRefreshes ==
    [][/\ (lastOp'.op = "refresh" \/ resumed'.c # 0) => UNCHANGED interval
       /\ TimerCycles' > TimerCycles
            => /\ TimerCycles' = TimerCycles + 1
               /\ now = TimerCycles' * REFRESH_MS
               /\ interval'.due = now + REFRESH_MS
       /\ interval'.active => interval'.due = (TimerCycles' + 1) * REFRESH_MS]_vars

\* C36 witness: the first timer-driven cycle has started 30 000 ms after the
\* mount, after a manual refresh 15 000 ms before that is still in flight.
C36_Witness ==
    /\ Len(cycles) = 3
    /\ cycles[2].src = "manual"
    /\ cycles[3].src = "timer"
    /\ 2 \in Running
    /\ now = REFRESH_MS
    /\ interval = [active |-> TRUE, due |-> 2 * REFRESH_MS]

\* C37: if every request that was sent settles, every refresh cycle completes
\* and every rug check completes: after the mount loading becomes false, and
\* after each check checkingRug becomes false again.
C37_EverythingCompletes ==
    /\ \A c \in 1..MaxCycles : (c \in Running) ~> (c \notin Running)
    /\ (Live /\ loading) ~> (~loading \/ ~Live)
    /\ checkingRug ~> (~checkingRug \/ ~Live)
    /\ (rugPosts # <<>>) ~> (rugPosts = <<>>)

\* C37 witness: every cycle started, a failed one among them, and a rug check
\* have completed; nothing is outstanding, loading and checkingRug are false.
C37_Witness ==
    /\ Live
    /\ Len(cycles) = MaxCycles
    /\ Running = {}
    /\ faults > 0
    /\ rugPosts = <<>>
    /\ lastOp.op \in {"rugResolved", "rugRejected"}
    /\ ~loading
    /\ ~checkingRug

\* The time of the last click on the copy button, when a timeout is pending.
LastClick == resets[Len(resets)] - COPIED_MS

\* C38: each click on the copy button sets copied and adds a reset due 2000 ms
\* later; a pending reset goes only by firing at its time, and then it clears
\* copied whatever later clicks are pending; copied is false again in the end.
C38_EveryClickSchedulesItsOwnReset ==
    /\ [][lastOp'.op = "copy"
            => (copied' /\ resets' = Append(resets, now + COPIED_MS))]_vars
    /\ [][resets' # resets /\ lastOp'.op # "copy"
            => (/\ resets # <<>> /\ resets[1] = now
                /\ resets' = Tail(resets)
                /\ ~copied')]_vars
    /\ copied ~> ~copied
    /\ (resets # <<>>) ~> (resets = <<>>)

\* C38 witness: the reset of an earlier click has cleared copied 1000 ms after
\* a later click, whose own reset is still pending.
C38_Witness ==
    /\ lastOp.op = "copyReset"
    /\ ~copied
    /\ resets # <<>>
    /\ now - LastClick = CardStep
    /\ now - LastClick < COPIED_MS

====
